---- MODULE Spec2Model ----
(***************************************************************************)
(* Transformation cage of the editor: SelectedEdges (the state of one      *)
(* resize gesture) and BoundingBoxManager (hit-testing and cursor icon),   *)
(* from editor/src/messages/tool/common_functionality/                     *)
(* transformation_cage.rs.                                                 *)
(*                                                                         *)
(* f64 values are modelled as exact rationals extended with the IEEE 754   *)
(* special values: +0 and -0, +infinity, -infinity and NaN.  Rounding and  *)
(* overflow of finite results are not modelled: a finite operation on      *)
(* finite operands is exact.  Division by zero, 0/0, 0 * infinity and      *)
(* infinity - infinity produce the special values as IEEE 754 does.        *)
(***************************************************************************)
EXTENDS Integers, Sequences, FiniteSets, TLC

----------------------------------------------------------------------------
(* f64 *)

RECURSIVE GCD(_, _)
GCD(a, b) == IF b = 0 THEN a ELSE GCD(b, a % b)

IAbs(i) == IF i < 0 THEN -i ELSE i

\* The finite value n/d (d # 0) in lowest terms with a positive denominator.
\* A zero made here is +0.
Q(n, d) ==
  LET g == GCD(IAbs(n), IAbs(d))
      s == IF d < 0 THEN -1 ELSE 1
  IN  [k |-> "fin", n |-> s * (n \div g), d |-> s * (d \div g)]

I(n) == [k |-> "fin", n |-> n, d |-> 1]

PZERO == [k |-> "fin", n |-> 0, d |-> 1]
NZERO == [k |-> "nz", n |-> 0, d |-> 1]
PINF == [k |-> "pinf", n |-> 0, d |-> 1]
NINF == [k |-> "ninf", n |-> 0, d |-> 1]
NAN == [k |-> "nan", n |-> 0, d |-> 1]

IsNan(a) == a.k = "nan"
IsInf(a) == a.k \in {"pinf", "ninf"}
IsZero(a) == a.k = "nz" \/ (a.k = "fin" /\ a.n = 0)
\* f64::is_finite
IsFinite(a) == a.k \in {"fin", "nz"}
\* The IEEE sign bit (of a value that is not NaN).
SignBit(a) == a.k \in {"nz", "ninf"} \/ (a.k = "fin" /\ a.n < 0)

Zero(neg) == IF neg THEN NZERO ELSE PZERO
Inf(neg) == IF neg THEN NINF ELSE PINF

FNeg(a) ==
  IF a.k = "nan" THEN NAN
  ELSE IF a.k = "pinf" THEN NINF
  ELSE IF a.k = "ninf" THEN PINF
  ELSE IF a.k = "nz" THEN PZERO
  ELSE IF a.n = 0 THEN NZERO
  ELSE [a EXCEPT !.n = -a.n]

FAdd(a, b) ==
  IF IsNan(a) \/ IsNan(b) THEN NAN
  ELSE IF IsInf(a) /\ IsInf(b) THEN (IF a.k = b.k THEN a ELSE NAN)
  ELSE IF IsInf(a) THEN a
  ELSE IF IsInf(b) THEN b
  ELSE IF IsZero(a) /\ IsZero(b) THEN Zero(SignBit(a) /\ SignBit(b))
  ELSE Q(a.n * b.d + b.n * a.d, a.d * b.d)

FSub(a, b) == FAdd(a, FNeg(b))

FMul(a, b) ==
  IF IsNan(a) \/ IsNan(b) THEN NAN
  ELSE IF (IsInf(a) /\ IsZero(b)) \/ (IsZero(a) /\ IsInf(b)) THEN NAN
  ELSE IF IsInf(a) \/ IsInf(b) THEN Inf(SignBit(a) # SignBit(b))
  ELSE IF IsZero(a) \/ IsZero(b) THEN Zero(SignBit(a) # SignBit(b))
  ELSE Q(a.n * b.n, a.d * b.d)

FDiv(a, b) ==
  IF IsNan(a) \/ IsNan(b) THEN NAN
  ELSE IF IsInf(a) /\ IsInf(b) THEN NAN
  ELSE IF IsZero(a) /\ IsZero(b) THEN NAN
  ELSE IF IsInf(a) \/ IsZero(b) THEN Inf(SignBit(a) # SignBit(b))
  ELSE IF IsInf(b) \/ IsZero(a) THEN Zero(SignBit(a) # SignBit(b))
  ELSE Q(a.n * b.d, a.d * b.n)

\* f64::abs
FAbs(a) ==
  IF a.k = "nan" THEN NAN
  ELSE IF IsInf(a) THEN PINF
  ELSE IF a.k = "nz" THEN PZERO
  ELSE [a EXCEPT !.n = IAbs(a.n)]

\* a < b on f64: false when an operand is NaN; -0 and +0 are equal.
FLt(a, b) ==
  IF IsNan(a) \/ IsNan(b) THEN FALSE
  ELSE IF a.k = "pinf" \/ b.k = "ninf" THEN FALSE
  ELSE IF a.k = "ninf" \/ b.k = "pinf" THEN TRUE
  ELSE a.n * b.d < b.n * a.d

FGt(a, b) == FLt(b, a)

\* a == b on f64: false when an operand is NaN; -0 == +0.
FEq(a, b) ==
  IF IsNan(a) \/ IsNan(b) THEN FALSE
  ELSE IF IsInf(a) \/ IsInf(b) THEN a.k = b.k
  ELSE a.n * b.d = b.n * a.d

\* f64::max and f64::min: a NaN operand is ignored.
FMax(a, b) ==
  IF IsNan(a) THEN b
  ELSE IF IsNan(b) THEN a
  ELSE IF FLt(a, b) THEN b ELSE a

FMin(a, b) ==
  IF IsNan(a) THEN b
  ELSE IF IsNan(b) THEN a
  ELSE IF FLt(b, a) THEN b ELSE a

\* f64::signum: 1.0 for a positive number, +0.0 or +infinity, -1.0 for a
\* negative number, -0.0 or -infinity, NaN for NaN.
FSignum(a) == IF IsNan(a) THEN NAN ELSE IF SignBit(a) THEN I(-1) ELSE I(1)

\* The integer square root of a perfect square.
ISqrt(n) == CHOOSE r \in 0..n : r * r = n

\* f64::sqrt, on the values the model takes it of: a non-negative rational
\* whose numerator and denominator are perfect squares.
FSqrt(a) == IF IsZero(a) THEN a ELSE Q(ISqrt(a.n), ISqrt(a.d))

----------------------------------------------------------------------------
(* glam::DVec2 *)

V(x, y) == [x |-> x, y |-> y]
VI(x, y) == V(I(x), I(y))

VAdd(a, b) == V(FAdd(a.x, b.x), FAdd(a.y, b.y))
VSub(a, b) == V(FSub(a.x, b.x), FSub(a.y, b.y))
VMul(a, b) == V(FMul(a.x, b.x), FMul(a.y, b.y))
VDiv(a, b) == V(FDiv(a.x, b.x), FDiv(a.y, b.y))
VScale(a, s) == V(FMul(a.x, s), FMul(a.y, s))
VAbs(a) == V(FAbs(a.x), FAbs(a.y))
VMin(a, b) == V(FMin(a.x, b.x), FMin(a.y, b.y))
VMax(a, b) == V(FMax(a.x, b.x), FMax(a.y, b.y))
VSignum(a) == V(FSignum(a.x), FSignum(a.y))
VSplat(s) == V(s, s)
VLength(a) == FSqrt(FAdd(FMul(a.x, a.x), FMul(a.y, a.y)))
VIsFinite(a) == IsFinite(a.x) /\ IsFinite(a.y)

----------------------------------------------------------------------------
(* glam::DAffine2: the 2x2 matrix with columns x_axis and y_axis, and a    *)
(* translation.                                                            *)

Affine(xx, xy, yx, yy, tx, ty) ==
  [x_axis |-> VI(xx, xy), y_axis |-> VI(yx, yy), translation |-> VI(tx, ty)]

\* DMat2 * DVec2
transform_vector2(t, v) == VAdd(VScale(t.x_axis, v.x), VScale(t.y_axis, v.y))

transform_point2(t, p) == VAdd(transform_vector2(t, p), t.translation)

\* DMat2::determinant
determinant(t) == FSub(FMul(t.x_axis.x, t.y_axis.y), FMul(t.x_axis.y, t.y_axis.x))

\* DMat2::inverse, given 1 / determinant.
matrix_inverse(t, inv_det) ==
  [x_axis |-> V(FMul(t.y_axis.y, inv_det), FMul(t.x_axis.y, FNeg(inv_det))),
   y_axis |-> V(FMul(t.y_axis.x, FNeg(inv_det)), FMul(t.x_axis.x, inv_det)),
   translation |-> VI(0, 0)]

VNeg(a) == V(FNeg(a.x), FNeg(a.y))

\* DAffine2::inverse, given the inverse m of its matrix: the translation is
\* -(m * translation).
affine_inverse(t, m) == [m EXCEPT !.translation = VNeg(transform_vector2(m, t.translation))]

\* DAffine2::inverse
inverse(t) == affine_inverse(t, matrix_inverse(t, FDiv(I(1), determinant(t))))

\* DAffine2::from_scale
from_scale(s) == [x_axis |-> V(s.x, PZERO), y_axis |-> V(PZERO, s.y), translation |-> VI(0, 0)]

----------------------------------------------------------------------------
(* Constants *)

\* crate::consts (screen pixels).
BOUNDS_SELECT_THRESHOLD == 10
BOUNDS_ROTATE_THRESHOLD == 20

\* f64::EPSILON * 1000. = 125 * 2^-49.  The model's coordinates are multiples
\* of 1/2 plus the single sub-threshold length Tiny, so that only the order
\* of the threshold among them matters; it is kept at 2^-8 for the products
\* of the arithmetic to stay within TLC's 32-bit integers.
EPSILON_1000 == Q(1, 256)

----------------------------------------------------------------------------
(* SelectedEdges: [bounds, top, bottom, left, right, aspect_ratio], with   *)
(* bounds = <<corner0, corner1>>.  A box in progress is [min, max, pivot]. *)

\* SelectedEdges::new
SelectedEdges_new(top, bottom, left, right, bounds) ==
  LET size == VAbs(VSub(bounds[1], bounds[2]))
  IN  [top |-> top, bottom |-> bottom, left |-> left, right |-> right,
       bounds |-> bounds, aspect_ratio |-> FDiv(size.x, size.y)]

\* SelectedEdges::pivot_from_bounds
pivot_from_bounds(self, min, max) ==
  LET x == IF self.left THEN max.x
           ELSE IF self.right THEN min.x
           ELSE FDiv(FAdd(min.x, max.x), I(2))
      y == IF self.top THEN max.y
           ELSE IF self.bottom THEN min.y
           ELSE FDiv(FAdd(min.y, max.y), I(2))
  IN  V(x, y)

\* drag_edges with the far edge (bottom, right) taking priority.
drag_edges_far_first(self, mouse) ==
  [min |-> V(IF ~self.right /\ self.left THEN mouse.x ELSE self.bounds[1].x,
             IF ~self.bottom /\ self.top THEN mouse.y ELSE self.bounds[1].y),
   max |-> V(IF self.right THEN mouse.x ELSE self.bounds[2].x,
             IF self.bottom THEN mouse.y ELSE self.bounds[2].y)]

\* new_size, the edges under the pointer: the start bounds with the
\* coordinate of a dragged edge replaced by that of the pointer (in local
\* space); `if top .. else if bottom`, `if left .. else if right`.
drag_edges(self, mouse) ==
  [min |-> V(IF self.left THEN mouse.x ELSE self.bounds[1].x,
             IF self.top THEN mouse.y ELSE self.bounds[1].y),
   max |-> V(IF ~self.left /\ self.right THEN mouse.x ELSE self.bounds[2].x,
             IF ~self.top /\ self.bottom THEN mouse.y ELSE self.bounds[2].y)]

\* new_size: the pivot of the dragged box.
with_pivot(self, d) ==
  [min |-> d.min, max |-> d.max, pivot |-> pivot_from_bounds(self, d.min, d.max)]

\* center_y with the opposite edge mirrored by the pointer's distance from
\* center_around, not in proportion to the start box.
center_y_unscaled(self, b, c) ==
  IF self.top THEN
    [min |-> b.min, max |-> [b.max EXCEPT !.y = FAdd(c.y, FSub(c.y, b.min.y))],
     pivot |-> [b.pivot EXCEPT !.y = c.y]]
  ELSE IF self.bottom THEN
    [min |-> [b.min EXCEPT !.y = FSub(c.y, FSub(b.max.y, c.y))], max |-> b.max,
     pivot |-> [b.pivot EXCEPT !.y = c.y]]
  ELSE b

\* new_size, `if center`, the y axis: the edge opposite the dragged one is
\* moved in proportion, and the pivot becomes center_around, unless the
\* ratio `dragging edge / being centered` is not finite.
center_y(self, b, c) ==
  IF self.top THEN
    LET ratio == FDiv(FSub(c.y, b.min.y), FSub(c.y, self.bounds[1].y))
    IN  IF IsFinite(ratio)
        THEN [min |-> b.min,
              max |-> [b.max EXCEPT !.y = FAdd(c.y, FMul(ratio, FSub(self.bounds[2].y, c.y)))],
              pivot |-> [b.pivot EXCEPT !.y = c.y]]
        ELSE b
  ELSE IF self.bottom THEN
    LET ratio == FDiv(FSub(b.max.y, c.y), FSub(self.bounds[2].y, c.y))
    IN  IF IsFinite(ratio)
        THEN [min |-> [b.min EXCEPT !.y = FSub(c.y, FMul(ratio, FSub(c.y, self.bounds[1].y)))],
              max |-> b.max,
              pivot |-> [b.pivot EXCEPT !.y = c.y]]
        ELSE b
  ELSE b

\* new_size, `if center`, the x axis.
center_x(self, b, c) ==
  IF self.left THEN
    LET ratio == FDiv(FSub(c.x, b.min.x), FSub(c.x, self.bounds[1].x))
    IN  IF IsFinite(ratio)
        THEN [min |-> b.min,
              max |-> [b.max EXCEPT !.x = FAdd(c.x, FMul(ratio, FSub(self.bounds[2].x, c.x)))],
              pivot |-> [b.pivot EXCEPT !.x = c.x]]
        ELSE b
  ELSE IF self.right THEN
    LET ratio == FDiv(FSub(b.max.x, c.x), FSub(self.bounds[2].x, c.x))
    IN  IF IsFinite(ratio)
        THEN [min |-> [b.min EXCEPT !.x = FSub(c.x, FMul(ratio, FSub(c.x, self.bounds[1].x)))],
              max |-> b.max,
              pivot |-> [b.pivot EXCEPT !.x = c.x]]
        ELSE b
  ELSE b

\* new_size, `if center`
center_edges(self, center, center_around, b) ==
  IF center THEN center_x(self, center_y(self, b, center_around), center_around) ELSE b

\* constrained_size with the aspect ratio taken as height / width.
constrained_size_inverted(self, size) ==
  IF (self.top \/ self.bottom) /\ (self.left \/ self.right)
  THEN VMul(VMax(VAbs(V(size.x, FMul(size.x, self.aspect_ratio))),
                 VAbs(V(FDiv(size.y, self.aspect_ratio), size.y))),
            VSignum(size))
  ELSE IF self.top \/ self.bottom THEN V(FDiv(size.y, self.aspect_ratio), size.y)
  ELSE IF self.left \/ self.right THEN V(size.x, FMul(size.x, self.aspect_ratio))
  ELSE size

\* new_size, `if constrain`: the size with the aspect ratio of the start box.
constrained_size(self, size) ==
  IF (self.top \/ self.bottom) /\ (self.left \/ self.right)
  THEN VMul(VMax(VAbs(V(size.x, FDiv(size.x, self.aspect_ratio))),
                 VAbs(V(FMul(size.y, self.aspect_ratio), size.y))),
            VSignum(size))
  ELSE IF self.top \/ self.bottom THEN V(FMul(size.y, self.aspect_ratio), size.y)
  ELSE IF self.left \/ self.right THEN V(size.x, FDiv(size.x, self.aspect_ratio))
  ELSE size

\* new_size, `if constrain`: the box resized from `size` to new_size with the
\* pivot keeping its place in it (min -= delta_size * min_pivot).
resize_about(min, min_pivot, size, new_size) ==
  [min |-> VSub(min, VMul(VSub(new_size, size), min_pivot)),
   max |-> VAdd(VSub(min, VMul(VSub(new_size, size), min_pivot)), new_size)]

\* new_size, `if constrain`
constrain_edges(self, constrain, b) ==
  IF constrain
  THEN resize_about(b.min, VDiv(VSub(b.pivot, b.min), VSub(b.max, b.min)),
                    VSub(b.max, b.min), constrained_size(self, VSub(b.max, b.min)))
  ELSE [min |-> b.min, max |-> b.max]

\* new_size: the result (min, max - min).
origin_size(b) == <<b.min, VSub(b.max, b.min)>>

\* SelectedEdges::new_size: <<origin, size>>.
new_size(self, mouse, transform, center, center_around, constrain) ==
  origin_size(
    constrain_edges(self, constrain,
      center_edges(self, center, center_around,
        with_pivot(self, drag_edges(self, transform_point2(inverse(transform), mouse))))))

\* The scale factor of one axis: 1 when the quotient is not finite or the
\* start box is shorter than f64::EPSILON * 1000.
enlargement_factor(size, old_size) ==
  IF ~IsFinite(FDiv(size, old_size)) \/ FLt(FAbs(old_size), EPSILON_1000)
  THEN I(1)
  ELSE FDiv(size, old_size)

\* finite_or_zero without the guard.
finite_or_zero_unguarded(p) == p

\* bounds_to_scale_transform: a pivot coordinate that is not finite becomes 0.
finite_or_zero(p) == IF ~IsFinite(p) THEN PZERO ELSE p

\* scale_pivot computed from the far corner.
scale_pivot_far(self, position, factor) ==
  VDiv(VSub(VMul(self.bounds[2], factor), position), VSub(factor, VSplat(I(1))))

\* bounds_to_scale_transform: the pivot before its guard.
scale_pivot(self, position, factor) ==
  VDiv(VSub(VMul(self.bounds[1], factor), position), VSub(factor, VSplat(I(1))))

\* bounds_to_scale_transform, given the guarded factor and the raw pivot.
scale_transform(factor, pivot) ==
  <<from_scale(factor), V(finite_or_zero(pivot.x), finite_or_zero(pivot.y))>>

\* bounds_to_scale_transform, given the guarded factor.
scale_about(self, position, factor) == scale_transform(factor, scale_pivot(self, position, factor))

\* SelectedEdges::bounds_to_scale_transform: <<scale transform, pivot>>.
bounds_to_scale_transform(self, position, size) ==
  scale_about(self, position,
    V(enlargement_factor(size.x, FSub(self.bounds[2].x, self.bounds[1].x)),
      enlargement_factor(size.y, FSub(self.bounds[2].y, self.bounds[1].y))))

----------------------------------------------------------------------------
(* BoundingBoxManager: self is [bounds, transform]. *)

\* Option<(bool, bool, bool, bool)>
None == [some |-> FALSE, top |-> FALSE, bottom |-> FALSE, left |-> FALSE, right |-> FALSE]
Some(top, bottom, left, right) ==
  [some |-> TRUE, top |-> top, bottom |-> bottom, left |-> left, right |-> right]

\* The cursor in local space.
local_cursor(self, cursor) == transform_point2(inverse(self.transform), cursor)

\* A screen-space threshold in local units.
local_threshold(self, pixels) ==
  VLength(transform_vector2(inverse(self.transform), V(PZERO, I(pixels))))

\* check_selected_edges: `if top || bottom || left || right`
some_edge(top, bottom, left, right) ==
  IF top \/ bottom \/ left \/ right THEN Some(top, bottom, left, right) ELSE None

\* prioritise without the rules for very small bounds.
prioritise_none(top, bottom, left, right, thin_y, thin_x, flat, low) ==
  some_edge(top /\ ~low, bottom /\ ~low, left /\ ~flat, right /\ ~flat)

\* check_selected_edges, from the raw flags on: on very small bounds the
\* edges of one axis are preferred (thin_y: the height is under twice the
\* threshold; thin_x: the width is), and an axis on which the box has no
\* size (flat: no width; low: no height) is not dragged.
prioritise(top, bottom, left, right, thin_y, thin_x, flat, low) ==
  LET y_off == thin_y /\ (left \/ right)
      x_off == thin_x /\ ((top /\ ~y_off) \/ (bottom /\ ~y_off))
  IN  some_edge(top /\ ~y_off /\ ~low, bottom /\ ~y_off /\ ~low,
                left /\ ~x_off /\ ~flat, right /\ ~x_off /\ ~flat)

\* check_selected_edges, with the cursor and the threshold in local space and
\* the corners ordered.
edges_near(cursor, select_threshold, min, max) ==
  IF /\ FLt(FSub(min.x, cursor.x), select_threshold)
     /\ FLt(FSub(min.y, cursor.y), select_threshold)
     /\ FLt(FSub(cursor.x, max.x), select_threshold)
     /\ FLt(FSub(cursor.y, max.y), select_threshold)
  THEN prioritise(
         FLt(FAbs(FSub(cursor.y, min.y)), select_threshold),
         FLt(FAbs(FSub(max.y, cursor.y)), select_threshold),
         FLt(FAbs(FSub(cursor.x, min.x)), select_threshold),
         FLt(FAbs(FSub(max.x, cursor.x)), select_threshold),
         FLt(FSub(FAdd(FSub(cursor.y, min.y), max.y), cursor.y), FMul(select_threshold, I(2))),
         FLt(FSub(FAdd(FSub(cursor.x, min.x), max.x), cursor.x), FMul(select_threshold, I(2))),
         FLt(FSub(max.x, min.x), EPSILON_1000),
         FLt(FSub(max.y, min.y), EPSILON_1000))
  ELSE None

\* BoundingBoxManager::check_selected_edges
check_selected_edges(self, cursor) ==
  edges_near(local_cursor(self, cursor), local_threshold(self, BOUNDS_SELECT_THRESHOLD),
             VMin(self.bounds[1], self.bounds[2]), VMax(self.bounds[1], self.bounds[2]))

\* in_ring with the box itself counted as part of the ring.
in_ring_filled(cursor, rotate_threshold, min, max) ==
  /\ FLt(FSub(min.x, cursor.x), rotate_threshold)
  /\ FLt(FSub(min.y, cursor.y), rotate_threshold)
  /\ FLt(FSub(cursor.x, max.x), rotate_threshold)
  /\ FLt(FSub(cursor.y, max.y), rotate_threshold)

\* check_rotate, with the cursor and the threshold in local space and the
\* corners ordered: outside_bounds & inside_extended_bounds.
in_ring(cursor, rotate_threshold, min, max) ==
  /\ \/ FGt(min.x, cursor.x) \/ FGt(cursor.x, max.x)
     \/ FGt(min.y, cursor.y) \/ FGt(cursor.y, max.y)
  /\ /\ FLt(FSub(min.x, cursor.x), rotate_threshold)
     /\ FLt(FSub(min.y, cursor.y), rotate_threshold)
     /\ FLt(FSub(cursor.x, max.x), rotate_threshold)
     /\ FLt(FSub(cursor.y, max.y), rotate_threshold)

\* BoundingBoxManager::check_rotate
check_rotate(self, cursor) ==
  in_ring(local_cursor(self, cursor), local_threshold(self, BOUNDS_ROTATE_THRESHOLD),
          VMin(self.bounds[1], self.bounds[2]), VMax(self.bounds[1], self.bounds[2]))

\* get_cursor's match on the four flags: the first matching arm wins.
icon_of(t, b, l, r) ==
  IF (t /\ ~l /\ ~r) \/ (b /\ ~l /\ ~r) THEN "NSResize"
  ELSE IF (~t /\ ~b /\ l) \/ (~t /\ ~b /\ r) THEN "EWResize"
  ELSE IF (t /\ l) \/ (b /\ r) THEN "NWSEResize"
  ELSE IF (t /\ r) \/ (b /\ l) THEN "NESWResize"
  ELSE "Default"

\* cursor_for with the rotate ring looked at first.
cursor_for_rotate_first(directions, rotating) ==
  IF rotating THEN "Rotate"
  ELSE IF directions.some
  THEN icon_of(directions.top, directions.bottom, directions.left, directions.right)
  ELSE "Default"

\* get_cursor, given the edges under the cursor and `rotate && check_rotate`.
cursor_for(directions, rotating) ==
  IF directions.some
  THEN icon_of(directions.top, directions.bottom, directions.left, directions.right)
  ELSE IF rotating THEN "Rotate"
  ELSE "Default"

\* BoundingBoxManager::get_cursor
get_cursor(self, mouse_position, rotate) ==
  cursor_for(check_selected_edges(self, mouse_position),
             rotate /\ check_rotate(self, mouse_position))

----------------------------------------------------------------------------
(* State: the cage, the gesture in progress, and the last call made on     *)
(* them with its arguments and its result.                                 *)

VARIABLES
  manager,         \* BoundingBoxManager: [bounds, transform]
  selected_edges,  \* the SelectedEdges of the gesture in progress, or NoEdges
  grab,            \* the cursor (screen) the gesture was started at, or NoGrab
  op,              \* the last call
  arg,             \* its arguments
  ret              \* its result

vars == <<manager, selected_edges, grab, op, arg, ret>>

NoEdges == [none |-> TRUE]
NoGrab == [none |-> TRUE]
NoArg == [none |-> TRUE]

BOOL == {TRUE, FALSE}

\* The sub-threshold length: a box side shorter than f64::EPSILON * 1000.
Tiny == Q(1, 512)

\* local -> screen transforms: the identity, a scale by 2 with a translation,
\* and a quarter turn with a translation.
Identity == Affine(1, 0, 0, 1, 0, 0)
Scale2 == Affine(2, 0, 0, 2, 10, -5)
Turn == Affine(0, 1, -1, 0, 20, 0)

----------------------------------------------------------------------------
(* Hit-testing: check_selected_edges, check_rotate and get_cursor on a     *)
(* cage, for cursors on a 5 pixel grid around it.                          *)

\* The cursor grid reaches CursorReach steps of 5 pixels beyond [0, 20].
CursorReach == 5

CursorCoords == {5 * i : i \in (0 - CursorReach)..(4 + CursorReach)}
Cursors == {VI(x, y) : x \in CursorCoords, y \in CursorCoords}

\* Box sides (corner0, corner1) on one axis: wide, flipped, thin, and
\* degenerate (empty or shorter than the threshold).
HitSidesX == {<<I(0), I(20)>>, <<I(20), I(0)>>, <<I(0), I(5)>>, <<I(0), Tiny>>}
HitSidesY == {<<I(0), I(20)>>, <<I(20), I(0)>>, <<I(0), I(5)>>, <<I(5), I(5)>>}
HitBounds == {<<V(sx[1], sy[1]), V(sx[2], sy[2])>> : sx \in HitSidesX, sy \in HitSidesY}
HitTransforms == {Identity, Scale2, Turn}

HitInit ==
  /\ manager \in {[bounds |-> b, transform |-> t] : b \in HitBounds, t \in HitTransforms}
  /\ selected_edges = NoEdges
  /\ grab = NoGrab
  /\ op = "new"
  /\ arg = NoArg
  /\ ret = NoArg

CheckSelectedEdges(cursor) ==
  /\ op = "new"
  /\ op' = "check_selected_edges"
  /\ arg' = [cursor |-> cursor]
  /\ ret' = check_selected_edges(manager, cursor)
  /\ UNCHANGED <<manager, selected_edges, grab>>

CheckRotate(cursor) ==
  /\ op = "new"
  /\ op' = "check_rotate"
  /\ arg' = [cursor |-> cursor]
  /\ ret' = check_rotate(manager, cursor)
  /\ UNCHANGED <<manager, selected_edges, grab>>

GetCursor(cursor, rotate) ==
  /\ op = "new"
  /\ op' = "get_cursor"
  /\ arg' = [cursor |-> cursor, rotate |-> rotate]
  /\ ret' = get_cursor(manager, cursor, rotate)
  /\ UNCHANGED <<manager, selected_edges, grab>>

HitNext ==
  \/ \E c \in Cursors : CheckSelectedEdges(c)
  \/ \E c \in Cursors : CheckRotate(c)
  \/ \E c \in Cursors, r \in BOOL : GetCursor(c, r)

SpecHit == HitInit /\ [][HitNext]_vars

----------------------------------------------------------------------------
(* Properties of hit-testing.  They are stated in local space: Cur is the  *)
(* cursor of the last call there, Lo and Hi the ordered corners of the     *)
(* cage, whichever way round its bounds are.                               *)

Cur == local_cursor(manager, arg.cursor)
Lo == V(IF FLt(manager.bounds[2].x, manager.bounds[1].x) THEN manager.bounds[2].x ELSE manager.bounds[1].x,
        IF FLt(manager.bounds[2].y, manager.bounds[1].y) THEN manager.bounds[2].y ELSE manager.bounds[1].y)
Hi == V(IF FLt(manager.bounds[2].x, manager.bounds[1].x) THEN manager.bounds[1].x ELSE manager.bounds[2].x,
        IF FLt(manager.bounds[2].y, manager.bounds[1].y) THEN manager.bounds[1].y ELSE manager.bounds[2].y)
Flipped == FLt(manager.bounds[2].x, manager.bounds[1].x) \/ FLt(manager.bounds[2].y, manager.bounds[1].y)

FLe(a, b) == FLt(a, b) \/ FEq(a, b)

\* c lies strictly outside [lo, hi] on at least one axis.
StrictlyOutside(c, lo, hi) ==
  FLt(c.x, lo.x) \/ FLt(hi.x, c.x) \/ FLt(c.y, lo.y) \/ FLt(hi.y, c.y)

\* c lies within [lo - r, hi + r] on both axes, ends included.
WithinClosed(c, lo, hi, r) ==
  /\ FLe(FSub(lo.x, r), c.x) /\ FLe(c.x, FAdd(hi.x, r))
  /\ FLe(FSub(lo.y, r), c.y) /\ FLe(c.y, FAdd(hi.y, r))

\* c lies within (lo - r, hi + r) on both axes, ends excluded.
WithinOpen(c, lo, hi, r) ==
  /\ FLt(FSub(lo.x, r), c.x) /\ FLt(c.x, FAdd(hi.x, r))
  /\ FLt(FSub(lo.y, r), c.y) /\ FLt(c.y, FAdd(hi.y, r))

RotateR == local_threshold(manager, BOUNDS_ROTATE_THRESHOLD)
SelectR == local_threshold(manager, BOUNDS_SELECT_THRESHOLD)

\* C6 as stated: check_rotate is true exactly when the local cursor is
\* strictly outside [min, max] on some axis and within the closed
\* [min - r, max + r] on both axes.
C6_RotateRingClosed ==
  op = "check_rotate" =>
    (ret <=> (StrictlyOutside(Cur, Lo, Hi) /\ WithinClosed(Cur, Lo, Hi, RotateR)))

\* C6 as amended: check_rotate is true exactly when the local cursor is
\* strictly outside [min, max] on some axis and less than r away from the
\* box on both axes, that is within the open (min - r, max + r); min and max
\* are the ordered corners, so a flipped box gives the same result.
C6_RotateRingOpen ==
  op = "check_rotate" =>
    (ret <=> (StrictlyOutside(Cur, Lo, Hi) /\ WithinOpen(Cur, Lo, Hi, RotateR)))

\* A cursor in the ring of a flipped box.
C6_Witness == op = "check_rotate" /\ ret = TRUE /\ Flipped

\* The icon the table of C7 gives for the flags e.
TableIcon(e, icon) ==
  /\ ((e.top \/ e.bottom) /\ ~(e.left \/ e.right)) => icon = "NSResize"
  /\ (~(e.top \/ e.bottom) /\ (e.left \/ e.right)) => icon = "EWResize"
  /\ ((e.top /\ e.left) \/ (e.bottom /\ e.right)) => icon = "NWSEResize"
  /\ ((e.top /\ e.right) \/ (e.bottom /\ e.left)) => icon = "NESWResize"
  /\ icon \in {"NSResize", "EWResize", "NWSEResize", "NESWResize"}

\* C7: when check_selected_edges finds edges under the cursor, get_cursor
\* returns the resize icon of the table whatever rotate and check_rotate
\* are, never the default or the rotate icon; when it finds none, get_cursor
\* returns the rotate icon exactly when rotate and check_rotate are both
\* true, and the default icon otherwise.
C7_CursorPrecedence ==
  op = "get_cursor" =>
    IF check_selected_edges(manager, arg.cursor).some
    THEN TableIcon(check_selected_edges(manager, arg.cursor), ret)
    ELSE ret = (IF arg.rotate /\ check_rotate(manager, arg.cursor) THEN "Rotate" ELSE "Default")

\* A cursor on a corner handle that is in the rotate ring as well, with
\* rotation enabled: the resize icon wins.
C7_Witness ==
  /\ op = "get_cursor" /\ arg.rotate
  /\ check_rotate(manager, arg.cursor)
  /\ check_selected_edges(manager, arg.cursor).some
  /\ ret = "NESWResize"

\* The raw proximity flags of the local cursor.
NearTop == FLt(FAbs(FSub(Cur.y, Lo.y)), SelectR)
NearBottom == FLt(FAbs(FSub(Hi.y, Cur.y)), SelectR)
NearLeft == FLt(FAbs(FSub(Cur.x, Lo.x)), SelectR)
NearRight == FLt(FAbs(FSub(Hi.x, Cur.x)), SelectR)
InHitRegion == WithinOpen(Cur, Lo, Hi, SelectR)
Width == FSub(Hi.x, Lo.x)
Height == FSub(Hi.y, Lo.y)

\* C8: on a box lower than twice the threshold and at least 1000 epsilon
\* wide, a cursor in the hit region within the threshold of the left or the
\* right edge gets Some with neither top nor bottom and with left and right
\* as the raw proximity flags; on a box narrower than twice the threshold,
\* a cursor within the threshold of the top or bottom edge but of neither
\* the left nor the right edge gets neither left nor right.
C8_ThinBoxPriority ==
  op = "check_selected_edges" =>
    /\ ( /\ FLt(Height, FMul(SelectR, I(2)))
         /\ ~FLt(Width, EPSILON_1000)
         /\ InHitRegion
         /\ (NearLeft \/ NearRight) )
       => ( /\ ret.some /\ ~ret.top /\ ~ret.bottom
            /\ ret.left = NearLeft /\ ret.right = NearRight )
    /\ ( /\ FLt(Width, FMul(SelectR, I(2)))
         /\ (NearTop \/ NearBottom)
         /\ ~NearLeft /\ ~NearRight )
       => (~ret.left /\ ~ret.right)

\* A thin box with the cursor on its top left corner: the left edge alone.
C8_Witness ==
  /\ op = "check_selected_edges"
  /\ FLt(Height, FMul(SelectR, I(2))) /\ ~FLt(Height, EPSILON_1000)
  /\ NearLeft /\ NearTop /\ NearBottom
  /\ ret = Some(FALSE, FALSE, TRUE, FALSE)

----------------------------------------------------------------------------
(* Resizing: new_size on a SelectedEdges made with any of the sixteen flag *)
(* combinations, for pointers on a grid around the box.                    *)

\* The pointer grid reaches MouseReach steps beyond the box [0, 4] x [0, 2].
MouseReach == 1

Mice == {VI(2 * i, j) : i, j \in (0 - MouseReach)..(2 + MouseReach)}

\* Box sides (corner0, corner1) on one axis: plain, flipped and empty.
ResizeSidesX == {<<I(0), I(4)>>, <<I(4), I(0)>>, <<I(1), I(1)>>}
ResizeSidesY == {<<I(0), I(2)>>, <<I(2), I(0)>>, <<I(0), I(0)>>}
ResizeBounds == {<<V(sx[1], sy[1]), V(sx[2], sy[2])>> : sx \in ResizeSidesX, sy \in ResizeSidesY}

\* local -> screen: a scale by 2.
Zoom == Affine(2, 0, 0, 2, 0, 0)
ResizeTransforms == {Identity, Zoom}

\* center_around: the middle of the plain box, a point off its middle, and
\* its corner0.
Middle == VI(2, 1)
OffMiddle == V(I(1), Q(1, 2))
Corner == VI(0, 0)
CenterArounds == {Middle, OffMiddle, Corner}

ResizeInit ==
  /\ manager \in {[bounds |-> b, transform |-> t] : b \in ResizeBounds, t \in ResizeTransforms}
  /\ \E top, bottom, left, right \in BOOL :
       selected_edges = SelectedEdges_new(top, bottom, left, right, manager.bounds)
  /\ grab = NoGrab
  /\ op = "new"
  /\ arg = NoArg
  /\ ret = NoArg

NewSize(mouse, center, center_around, constrain) ==
  /\ op \in {"new", "press"}
  /\ selected_edges # NoEdges
  /\ op' = "new_size"
  /\ arg' = [mouse |-> mouse, center |-> center, center_around |-> center_around,
             constrain |-> constrain]
  /\ ret' = new_size(selected_edges, mouse, manager.transform, center, center_around, constrain)
  /\ UNCHANGED <<manager, selected_edges, grab>>

ResizeNext ==
  \/ \E m \in Mice, constrain \in BOOL : NewSize(m, FALSE, Middle, constrain)
  \/ \E m \in Mice, c \in CenterArounds, constrain \in BOOL : NewSize(m, TRUE, c, constrain)

SpecResize == ResizeInit /\ [][ResizeNext]_vars

----------------------------------------------------------------------------
(* Properties of new_size.  Ptr is the pointer of the last call in local   *)
(* space, B0 and B1 the corners the gesture started with, Origin and Size  *)
(* the result, and Far = Origin + Size the corner opposite Origin.         *)

Ptr == transform_point2(inverse(manager.transform), arg.mouse)
B0 == selected_edges.bounds[1]
B1 == selected_edges.bounds[2]
Origin == ret[1]
Size == ret[2]
Far == VAdd(ret[1], ret[2])

\* One flag on each axis: a corner handle.
CornerDrag ==
  /\ selected_edges.top # selected_edges.bottom
  /\ selected_edges.left # selected_edges.right

\* The size of the dragged box before the constraint, for a corner drag.
DraggedSize ==
  V(IF selected_edges.left THEN FSub(B1.x, Ptr.x) ELSE FSub(Ptr.x, B0.x),
    IF selected_edges.top THEN FSub(B1.y, Ptr.y) ELSE FSub(Ptr.y, B0.y))

\* C1: a corner drag with constrain and without center, on a box of
\* non-zero width and height with width # height, with the pointer giving a
\* non-zero size on both axes, returns a size with |size.x / size.y| equal
\* to the |width / height| of the start box.
C1_AspectLock ==
  ( /\ op = "new_size" /\ arg.constrain /\ ~arg.center
    /\ CornerDrag
    /\ ~IsZero(FSub(B1.x, B0.x)) /\ ~IsZero(FSub(B1.y, B0.y))
    /\ ~FEq(FAbs(FSub(B1.x, B0.x)), FAbs(FSub(B1.y, B0.y)))
    /\ ~IsZero(DraggedSize.x) /\ ~IsZero(DraggedSize.y) )
  => FEq(FAbs(FDiv(Size.x, Size.y)), FAbs(FDiv(FSub(B1.x, B0.x), FSub(B1.y, B0.y))))

\* A constrained drag of the bottom right corner past the left edge, in
\* which the width follows the height and stays negative.
C1_Witness ==
  /\ op = "new_size" /\ arg.constrain /\ ~arg.center
  /\ selected_edges.bottom /\ selected_edges.right
  /\ ~selected_edges.top /\ ~selected_edges.left
  /\ B0 = VI(0, 0) /\ B1 = VI(4, 2)
  /\ FLt(DraggedSize.x, PZERO) /\ FGt(DraggedSize.y, PZERO)
  /\ ~FEq(Size.x, DraggedSize.x) /\ FLt(Size.x, PZERO)
  /\ FEq(Size.y, DraggedSize.y)

\* C2 as stated: new_size with constrain returns an origin and a size whose
\* four components are all finite.
C2_ConstrainFinite ==
  (op = "new_size" /\ arg.constrain) => (VIsFinite(Origin) /\ VIsFinite(Size))

\* The centering ratio of the axis, as new_size computes it, is finite.
RatioY ==
  IF selected_edges.top THEN FDiv(FSub(arg.center_around.y, Ptr.y), FSub(arg.center_around.y, B0.y))
  ELSE IF selected_edges.bottom THEN FDiv(FSub(Ptr.y, arg.center_around.y), FSub(B1.y, arg.center_around.y))
  ELSE I(1)
RatioX ==
  IF selected_edges.left THEN FDiv(FSub(arg.center_around.x, Ptr.x), FSub(arg.center_around.x, B0.x))
  ELSE IF selected_edges.right THEN FDiv(FSub(Ptr.x, arg.center_around.x), FSub(B1.x, arg.center_around.x))
  ELSE I(1)

\* center_around has the same normalized position in the result as in the
\* start box, on both axes.
SamePlace ==
  /\ FEq(FDiv(FSub(arg.center_around.x, Origin.x), Size.x),
         FDiv(FSub(arg.center_around.x, B0.x), FSub(B1.x, B0.x)))
  /\ FEq(FDiv(FSub(arg.center_around.y, Origin.y), Size.y),
         FDiv(FSub(arg.center_around.y, B0.y), FSub(B1.y, B0.y)))

\* C5 as stated, on the start boxes in which center_around has a normalized
\* position (non-zero width and height): with center and without constrain,
\* whenever the centering ratio is finite on every axis with an active edge,
\* center_around keeps its normalized position.
C5_PivotInvariance ==
  ( /\ op = "new_size" /\ arg.center /\ ~arg.constrain
    /\ ~IsZero(FSub(B1.x, B0.x)) /\ ~IsZero(FSub(B1.y, B0.y))
    /\ IsFinite(RatioX) /\ IsFinite(RatioY) )
  => SamePlace

\* C5 as amended: with center and without constrain, on a start box of
\* non-zero width and height, whenever the centering ratio is finite and
\* not zero on every axis with an active edge, center_around keeps its
\* normalized position.
C5_PivotInvarianceNonZero ==
  ( /\ op = "new_size" /\ arg.center /\ ~arg.constrain
    /\ ~IsZero(FSub(B1.x, B0.x)) /\ ~IsZero(FSub(B1.y, B0.y))
    /\ IsFinite(RatioX) /\ IsFinite(RatioY)
    /\ ~IsZero(RatioX) /\ ~IsZero(RatioY) )
  => SamePlace

\* A centered drag of the top left corner about a point off the middle of
\* the box, which moves the bottom right corner as well.
C5_Witness ==
  /\ op = "new_size" /\ arg.center /\ ~arg.constrain
  /\ selected_edges.top /\ selected_edges.left
  /\ arg.center_around = OffMiddle
  /\ B0 = VI(0, 0) /\ B1 = VI(4, 2)
  /\ IsFinite(RatioX) /\ IsFinite(RatioY) /\ ~IsZero(RatioX) /\ ~IsZero(RatioY)
  /\ ~FEq(Far.x, B1.x) /\ ~FEq(Far.y, B1.y)
  /\ ~FEq(FSub(Far.x, arg.center_around.x), FSub(arg.center_around.x, Origin.x))

\* C9 as stated: without center and constrain, each active edge is at the
\* pointer and each inactive edge where it started.
C9_ActiveEdges ==
  (op = "new_size" /\ ~arg.center /\ ~arg.constrain) =>
    /\ FEq(Origin.y, IF selected_edges.top THEN Ptr.y ELSE B0.y)
    /\ FEq(Far.y, IF selected_edges.bottom THEN Ptr.y ELSE B1.y)
    /\ FEq(Origin.x, IF selected_edges.left THEN Ptr.x ELSE B0.x)
    /\ FEq(Far.x, IF selected_edges.right THEN Ptr.x ELSE B1.x)

\* C9 as amended: without center and constrain, top (left) puts min.y
\* (min.x) at the pointer; bottom (right) puts max.y (max.x) at the pointer
\* only when top (left) is not set as well; every other coordinate is as in
\* the start bounds.
C9_ActiveEdgesNearFirst ==
  (op = "new_size" /\ ~arg.center /\ ~arg.constrain) =>
    /\ FEq(Origin.y, IF selected_edges.top THEN Ptr.y ELSE B0.y)
    /\ FEq(Far.y, IF selected_edges.bottom /\ ~selected_edges.top THEN Ptr.y ELSE B1.y)
    /\ FEq(Origin.x, IF selected_edges.left THEN Ptr.x ELSE B0.x)
    /\ FEq(Far.x, IF selected_edges.right /\ ~selected_edges.left THEN Ptr.x ELSE B1.x)

\* A drag with top and bottom both set: the top edge follows the pointer and
\* the bottom edge stays.
C9_Witness ==
  /\ op = "new_size" /\ ~arg.center /\ ~arg.constrain
  /\ selected_edges.top /\ selected_edges.bottom
  /\ ~FEq(Ptr.y, B0.y) /\ ~FEq(Ptr.y, B1.y)
  /\ FEq(Origin.y, Ptr.y) /\ FEq(Far.y, B1.y)

----------------------------------------------------------------------------
(* A gesture: the edges under the cursor at the press become the           *)
(* SelectedEdges of the drag, which new_size then resizes.                 *)

\* Cages as they are and flipped on either axis.
GrabSidesX == {<<I(0), I(20)>>, <<I(20), I(0)>>}
GrabSidesY == {<<I(0), I(20)>>, <<I(20), I(0)>>}
GrabBounds == {<<V(sx[1], sy[1]), V(sx[2], sy[2])>> : sx \in GrabSidesX, sy \in GrabSidesY}
GrabTransforms == {Identity, Scale2}

\* Where the pointer is dragged to (screen).
GrabMice == {VI(10 * i + 5, 10 * j + 5) : i, j \in (0 - MouseReach)..(1 + MouseReach)}

GrabInit ==
  /\ manager \in {[bounds |-> b, transform |-> t] : b \in GrabBounds, t \in GrabTransforms}
  /\ selected_edges = NoEdges
  /\ grab = NoGrab
  /\ op = "new"
  /\ arg = NoArg
  /\ ret = NoArg

\* The pointer goes down on an edge: the drag starts with the edges that
\* check_selected_edges returns and the bounds of the cage.
Press(cursor) ==
  /\ op = "new"
  /\ check_selected_edges(manager, cursor).some
  /\ op' = "press"
  /\ arg' = [cursor |-> cursor]
  /\ ret' = check_selected_edges(manager, cursor)
  /\ grab' = cursor
  /\ selected_edges' = SelectedEdges_new(check_selected_edges(manager, cursor).top,
                                         check_selected_edges(manager, cursor).bottom,
                                         check_selected_edges(manager, cursor).left,
                                         check_selected_edges(manager, cursor).right,
                                         manager.bounds)
  /\ UNCHANGED manager

GrabNext ==
  \/ \E c \in Cursors : Press(c)
  \/ \E m \in GrabMice : NewSize(m, FALSE, Middle, FALSE)

SpecGrab == GrabInit /\ [][GrabNext]_vars

\* The cursor of the press in local space, and its raw proximity to the
\* edges of the cage.
GrabCur == local_cursor(manager, grab)
GrabNearTop == FLt(FAbs(FSub(GrabCur.y, Lo.y)), SelectR)
GrabNearBottom == FLt(FAbs(FSub(Hi.y, GrabCur.y)), SelectR)
GrabNearLeft == FLt(FAbs(FSub(GrabCur.x, Lo.x)), SelectR)
GrabNearRight == FLt(FAbs(FSub(Hi.x, GrabCur.x)), SelectR)

\* The result has one edge at `kept` and the other at `at` on an axis.
EdgesAre(o, f, kept, at) == (FEq(o, kept) /\ FEq(f, at)) \/ (FEq(f, kept) /\ FEq(o, at))

\* C10 as stated: when the press was within the threshold of exactly one
\* edge of an axis, the drag puts that edge at the pointer and leaves the
\* opposite edge of the axis at its start coordinate, flipped bounds
\* included.
C10_GrabbedEdgeMoves ==
  (op = "new_size" /\ grab # NoGrab) =>
    /\ (GrabNearTop /\ ~GrabNearBottom /\ selected_edges.top)
         => EdgesAre(Origin.y, Far.y, Hi.y, Ptr.y)
    /\ (GrabNearBottom /\ ~GrabNearTop /\ selected_edges.bottom)
         => EdgesAre(Origin.y, Far.y, Lo.y, Ptr.y)
    /\ (GrabNearLeft /\ ~GrabNearRight /\ selected_edges.left)
         => EdgesAre(Origin.x, Far.x, Hi.x, Ptr.x)
    /\ (GrabNearRight /\ ~GrabNearLeft /\ selected_edges.right)
         => EdgesAre(Origin.x, Far.x, Lo.x, Ptr.x)

\* C10 on the cages that are not flipped, where it holds.
C10_GrabbedEdgeMovesUnflipped == ~Flipped => C10_GrabbedEdgeMoves

\* A drag of the top edge of a cage that is not flipped.
C10_Witness ==
  /\ op = "new_size" /\ grab # NoGrab /\ ~Flipped
  /\ GrabNearTop /\ ~GrabNearBottom /\ selected_edges.top
  /\ ~FEq(Ptr.y, Lo.y) /\ ~FEq(Ptr.y, Hi.y)

----------------------------------------------------------------------------
(* Scaling: bounds_to_scale_transform for target rectangles on a grid.     *)

\* Target positions reach ScaleReach from the origin on both axes, target
\* sizes ScaleReach + 1.
ScaleReach == 1

Positions == {VI(i, j) : i, j \in (0 - ScaleReach)..ScaleReach}
Sizes == {VI(i, j) : i, j \in (0 - ScaleReach - 1)..(ScaleReach + 1)}

\* Box sides (corner0, corner1) on one axis: plain, flipped, empty, and
\* shorter than the threshold.
ScaleSides == {<<I(0), I(2)>>, <<I(1), I(-1)>>, <<I(1), I(1)>>, <<I(1), FAdd(I(1), Tiny)>>}
ScaleBounds == {<<V(sx[1], sy[1]), V(sx[2], sy[2])>> : sx \in ScaleSides, sy \in ScaleSides}

ScaleInit ==
  /\ manager \in {[bounds |-> b, transform |-> Identity] : b \in ScaleBounds}
  /\ \E top, left \in BOOL :
       selected_edges = SelectedEdges_new(top, ~top, left, ~left, manager.bounds)
  /\ grab = NoGrab
  /\ op = "new"
  /\ arg = NoArg
  /\ ret = NoArg

BoundsToScaleTransform(position, size) ==
  /\ op = "new"
  /\ op' = "bounds_to_scale_transform"
  /\ arg' = [position |-> position, size |-> size]
  /\ ret' = bounds_to_scale_transform(selected_edges, position, size)
  /\ UNCHANGED <<manager, selected_edges, grab>>

ScaleNext == \E p \in Positions, sz \in Sizes : BoundsToScaleTransform(p, sz)

SpecScale == ScaleInit /\ [][ScaleNext]_vars

\* The scale factor and the pivot returned, and the size of the start box.
Factor == V(ret[1].x_axis.x, ret[1].y_axis.y)
Pivot == ret[2]
OldSize == VSub(B1, B0)

\* The quotient the pivot is computed as, for the factor returned.
PivotQuotient == VDiv(VSub(VMul(B0, Factor), arg.position), VSub(Factor, VSplat(I(1))))

\* C3: bounds_to_scale_transform returns a factor and a pivot whose
\* components are all finite, whatever the start bounds; an axis whose
\* start size is below 1000 epsilon (zero included) gets factor 1, and an
\* axis whose pivot quotient is not finite gets pivot coordinate 0.
C3_ScaleFinite ==
  op = "bounds_to_scale_transform" =>
    /\ VIsFinite(ret[1].x_axis) /\ VIsFinite(ret[1].y_axis) /\ VIsFinite(ret[1].translation)
    /\ IsZero(ret[1].x_axis.y) /\ IsZero(ret[1].y_axis.x)
    /\ VIsFinite(Pivot)
    /\ FLt(FAbs(OldSize.x), EPSILON_1000) => FEq(Factor.x, I(1))
    /\ FLt(FAbs(OldSize.y), EPSILON_1000) => FEq(Factor.y, I(1))
    /\ ~IsFinite(PivotQuotient.x) => IsZero(Pivot.x)
    /\ ~IsFinite(PivotQuotient.y) => IsZero(Pivot.y)

\* A start box with no width and a height under the threshold.
C3_Witness ==
  /\ op = "bounds_to_scale_transform"
  /\ IsZero(OldSize.x) /\ ~IsZero(OldSize.y) /\ FLt(FAbs(OldSize.y), EPSILON_1000)
  /\ ~IsZero(arg.size.x) /\ ~IsZero(arg.size.y)
  /\ Factor = VI(1, 1) /\ Pivot = VI(0, 0)

\* Scaling coordinate x about pivot p by factor f.
Scaled(p, f, x) == FAdd(p, FMul(f, FSub(x, p)))

\* The start box is not degenerate on either axis.
NonDegenerate == ~FLt(FAbs(OldSize.x), EPSILON_1000) /\ ~FLt(FAbs(OldSize.y), EPSILON_1000)

\* C4 as stated: for a start box that is not degenerate, scaling about the
\* returned pivot by the returned factor maps bounds[0] to the target
\* position and bounds[1] to the target position + the target size.
C4_RealizesTarget ==
  (op = "bounds_to_scale_transform" /\ NonDegenerate) =>
    /\ FEq(Scaled(Pivot.x, Factor.x, B0.x), arg.position.x)
    /\ FEq(Scaled(Pivot.y, Factor.y, B0.y), arg.position.y)
    /\ FEq(Scaled(Pivot.x, Factor.x, B1.x), FAdd(arg.position.x, arg.size.x))
    /\ FEq(Scaled(Pivot.y, Factor.y, B1.y), FAdd(arg.position.y, arg.size.y))

\* One axis of C4 as amended: where the target size differs from the start
\* size the corners go to the target; where it equals the start size the
\* factor is 1 and the corners stay where they are.
RealizesAxis(p, f, b0, b1, position, size) ==
  IF FEq(size, FSub(b1, b0))
  THEN FEq(f, I(1)) /\ FEq(Scaled(p, f, b0), b0) /\ FEq(Scaled(p, f, b1), b1)
  ELSE FEq(Scaled(p, f, b0), position) /\ FEq(Scaled(p, f, b1), FAdd(position, size))

\* C4 as amended: for a start box that is not degenerate, on each axis on
\* which the target size differs from the start size, scaling about the
\* returned pivot by the returned factor maps bounds[0] to the target
\* position and bounds[1] to the target position + the target size; on an
\* axis on which the sizes are equal, the factor is 1 and the scaling
\* leaves both corners where they are, whatever the target position.
C4_RealizesTargetResized ==
  (op = "bounds_to_scale_transform" /\ NonDegenerate) =>
    /\ RealizesAxis(Pivot.x, Factor.x, B0.x, B1.x, arg.position.x, arg.size.x)
    /\ RealizesAxis(Pivot.y, Factor.y, B0.y, B1.y, arg.position.y, arg.size.y)

\* A target that differs from the start box in position and size on both
\* axes, and is reached.
C4_Witness ==
  /\ op = "bounds_to_scale_transform" /\ NonDegenerate
  /\ ~FEq(arg.size.x, OldSize.x) /\ ~FEq(arg.size.y, OldSize.y)
  /\ ~FEq(arg.position.x, B0.x) /\ ~FEq(arg.position.y, B0.y)
  /\ ~IsZero(arg.size.x) /\ ~IsZero(arg.size.y)
  /\ FEq(Scaled(Pivot.x, Factor.x, B1.x), FAdd(arg.position.x, arg.size.x))
  /\ FEq(Scaled(Pivot.y, Factor.y, B1.y), FAdd(arg.position.y, arg.size.y))

====
